---- MODULE Spec2Model ----
(***************************************************************************)
(* activitywatch-exporter (src/main.go): one run of the exporter.          *)
(*                                                                         *)
(*   main        discovers the buckets, starts one goroutine per bucket,   *)
(*               joins them, compresses the payload and uploads it.        *)
(*   goroutine   fetches the events of its bucket, renders one line per    *)
(*               event and appends it to the shared bytes.Buffer.          *)
(*   RoundTrip   retryableTransport: every request of the http.Client      *)
(*               passes through it.                                        *)
(*                                                                         *)
(* Six specifications:                                                     *)
(*   Spec        the whole run (main and its goroutines).                  *)
(*   SpecWrite   the goroutines from the start of their loops to the join, *)
(*               with the events each loop started with kept for reference.*)
(*   SpecFair    the run from the start of the goroutines' loops to its    *)
(*               end, every goroutine, main and every HTTP attempt taking  *)
(*               its next step sooner or later.                            *)
(*   SpecRT      one call of retryableTransport.RoundTrip on an arbitrary  *)
(*               request, with the log of what the underlying transport    *)
(*               was handed and what it returned.                          *)
(*   SpecLoop    one goroutine's loop over the events of its bucket, with  *)
(*               the lines as fmt.Sprintf renders them.                    *)
(*   SpecEscape  one call of escapeTagValue. A string is the sequence of   *)
(*               its code points.                                          *)
(*                                                                         *)
(* A step is one access to what the goroutines share (the buffer, the      *)
(* counter, the logger, the WaitGroup) or one answer of a server, together *)
(* with the local code around it. An attempt of RoundTrip is one step: the *)
(* answer of the underlying transport and the loop condition on it.        *)
(***************************************************************************)
EXTENDS Integers, Sequences, FiniteSets, TLC

\* ------------------------------------------------------------------ bounds

\* Buckets the server may list.
MaxSources == 2
\* Events the server may return for one bucket.
MaxEvents == 1
\* Chunks of a request body in SpecRT.
MaxBody == 2
\* Code points of the short values escapeTagValue is called with in SpecEscape.
MaxTagLen == 3
\* Events of the bucket in SpecLoop.
MaxLoopEvents == 3
\* Events the server may return for one bucket in SpecFair.
MaxFairEvents == 3

\* ------------------------------------------------------- program constants

retryCount == 3
stringLimit == 1024
bucketsApiPath == "/api/0/buckets"
webTabCurrentType == "web.tab.current"
appEditorType == "app.editor.activity"
currentWindowType == "currentwindow"
stopwatchType == "general.stopwatch"
afkType == "afkstatus"

StatusOK == 200
StatusNoContent == 204
StatusInternalServerError == 500
StatusBadGateway == 502
StatusServiceUnavailable == 503
StatusGatewayTimeout == 504

\* The cases of the switch on entry.Type.
KnownTypes ==
    {webTabCurrentType, appEditorType, currentWindowType, stopwatchType, afkType}

\* ------------------------------------------------------------ small inputs

Main == 0
Tasks == 1..MaxSources
Callers == {Main} \cup Tasks

\* Statuses the servers answer with: in SpecRT, and (fewer) in a whole run.
Statuses == {200, 201, 204, 404, 500, 502, 503, 504}
RunStatuses == {200, 204, 503}

\* Bucket types the server lists in a whole run: one the switch knows, one it
\* does not.
RunTypes == {currentWindowType, "unknown.type"}

\* A nil *http.Response, a nil req.Body.
NoResp == 0
NoBody == [data |-> <<>>, pos |-> -1]

\* What the underlying transport returns: (nil, err) or (resp, nil).
TransportOutcomes(S) ==
    {[err |-> TRUE, status |-> NoResp]} \cup {[err |-> FALSE, status |-> s] : s \in S}

\* bytes.Buffer{}; a slot of the array no line was copied to.
EmptyBuffer == [buf |-> <<>>, len |-> 0]
Hole == [src |-> 0, ev |-> 0, torn |-> FALSE]

\* No loop over events and no call of escapeTagValue is under way.
LoopIdle == [pc |-> "idle", entry |-> <<>>, fetched |-> <<>>, events |-> <<>>, lines |-> <<>>]
EscIdle == [pc |-> "idle", value |-> <<>>, result |-> <<>>]

\* A reader over data, nothing read yet: io.NopCloser(bytes.NewBuffer(data)).
NewReader(data) == [data |-> data, pos |-> 0]
Remaining(body) == SubSeq(body.data, body.pos + 1, Len(body.data))

VARIABLES
    mpc,          \* main's position
    bucketsList,  \* the decoded bucket list: bucket number -> [id, type]
    wg,           \* the WaitGroup's counter
    payload,      \* the shared bytes.Buffer: its array, one slot per line, and
                  \* its length len(b.buf) in slots
    apiErrors,    \* the atomic.Int64
    logOutput,    \* the standard logger's output
    rt,           \* per caller: the frame of its RoundTrip call
    tpc,          \* per goroutine: its position
    events,       \* per goroutine: the decoded events the loop has yet to take
    idx,          \* per goroutine: the number of the event the loop is at
    off,          \* per goroutine: the slot its WriteString writes to
    srcFailed,    \* per goroutine: whether its fetch failed at source level
    mainResp,     \* main's resp, err of its last client.Do
    outcome,      \* how the run ended
    uploads,      \* write POSTs handed to the underlying transport
    hist,         \* SpecRT: the request RoundTrip was passed, and the underlying
                  \* transport's calls in order: the request handed over, how
                  \* much of its body the call read, what it returned
    discovery,    \* what the answer to the bucket list request was: "pending",
                  \* "failed" (a transport error, an unreadable body, a status
                  \* other than 200, a body that is no bucket map) or "ok",
                  \* whatever the code makes of it
    loads,        \* calls of apiErrors.Load()
    fetched,      \* SpecWrite: per goroutine, the events its loop started with
    loop,         \* SpecLoop: one goroutine's loop over its events
    esc           \* SpecEscape: one call of escapeTagValue

vars ==
    <<mpc, bucketsList, wg, payload, apiErrors, logOutput, rt, tpc, events,
      idx, off, srcFailed, mainResp, outcome, uploads, hist, discovery, loads,
      fetched, loop, esc>>

runVars ==
    <<mpc, bucketsList, wg, payload, apiErrors, logOutput, tpc, events,
      idx, off, srcFailed, mainResp, outcome, discovery, loads, fetched, loop, esc>>

\* ------------------------------------------------------ retryableTransport

\* shouldRetry with every status from 400 up taken for a server failure.
shouldRetryClientErrors(err, resp) ==
    IF err THEN TRUE
    ELSE IF resp = NoResp THEN TRUE
    ELSE resp >= 400

shouldRetry(err, resp) ==
    IF err THEN TRUE
    ELSE IF resp = NoResp THEN TRUE
    ELSE resp \in {StatusInternalServerError, StatusBadGateway,
                   StatusServiceUnavailable, StatusGatewayTimeout}

\* ResetBody without lines 120-122.
ResetBodyForgotten(body, bodyBytes) == body

\* Lines 114-126: what the loop body does to req.Body before the retry.
ResetBody(body, bodyBytes) ==
    IF body # NoBody THEN NewReader(bodyBytes) ELSE body

\* Lines 106-110: the frame of RoundTrip(req) before its first attempt.
BeginRoundTrip(req) ==
    LET bodyBytes == IF req.body # NoBody THEN Remaining(req.body) ELSE <<>>
    IN  [pc |-> "first",
         req |-> IF req.body # NoBody
                 THEN [req EXCEPT !.body = NewReader(bodyBytes)]
                 ELSE req,
         bodyBytes |-> bodyBytes,
         resp |-> NoResp,
         err |-> FALSE,
         retries |-> 0]

\* No RoundTrip call in progress.
NoRequest == [method |-> "", url |-> [path |-> "", id |-> 0], header |-> {}, body |-> NoBody]

RTIdle ==
    [pc |-> "idle",
     req |-> NoRequest,
     bodyBytes |-> <<>>,
     resp |-> NoResp,
     err |-> FALSE,
     retries |-> 0]

\* Lines 111 and 127-128: t.transport.RoundTrip(req) returns o after reading k
\* more chunks of req.Body.
AfterAttempt(f, o, k) ==
    [f EXCEPT !.pc = "cond",
              !.resp = o.status,
              !.err = o.err,
              !.req.body = IF f.req.body = NoBody THEN NoBody
                           ELSE [f.req.body EXCEPT !.pos = @ + k],
              !.retries = IF f.pc = "retry" THEN @ + 1 ELSE @]

\* How much of req.Body an attempt may read.
Readable(f) ==
    IF f.req.body = NoBody THEN {0} ELSE 0..(Len(f.req.body.data) - f.req.body.pos)

\* AfterCheck with the loop condition retries <= retryCount.
AfterCheckOffByOne(f) ==
    IF shouldRetry(f.err, f.resp) /\ f.retries <= retryCount
    THEN [f EXCEPT !.pc = "retry",
                   !.req.body = ResetBody(f.req.body, f.bodyBytes),
                   !.resp = NoResp,
                   !.err = FALSE]
    ELSE [f EXCEPT !.pc = "ret",
                   !.bodyBytes = <<>>,
                   !.retries = 0]

\* AfterCheck without the loop of lines 113-128: the first answer is returned.
AfterCheckNeverRetries(f) ==
    [f EXCEPT !.pc = "ret",
              !.bodyBytes = <<>>,
              !.retries = 0]

\* AfterCheck returning an error of its own once the retries are used up.
AfterCheckWrapsExhaustion(f) ==
    IF shouldRetry(f.err, f.resp) /\ f.retries < retryCount
    THEN [f EXCEPT !.pc = "retry",
                   !.req.body = ResetBody(f.req.body, f.bodyBytes),
                   !.resp = NoResp,
                   !.err = FALSE]
    ELSE [f EXCEPT !.pc = "ret",
                   !.bodyBytes = <<>>,
                   !.retries = 0,
                   !.resp = IF shouldRetry(f.err, f.resp) THEN NoResp ELSE @,
                   !.err = IF shouldRetry(f.err, f.resp) THEN TRUE ELSE @]

\* Line 113, then lines 114-126 (resp is drained and logged: the next attempt
\* overwrites resp and err before they are read again) or line 130 (the call
\* returns resp, err; its frame is gone).
AfterCheck(f) ==
    IF shouldRetry(f.err, f.resp) /\ f.retries < retryCount
    THEN [f EXCEPT !.pc = "retry",
                   !.req.body = ResetBody(f.req.body, f.bodyBytes),
                   !.resp = NoResp,
                   !.err = FALSE]
    ELSE [f EXCEPT !.pc = "ret",
                   !.bodyBytes = <<>>,
                   !.retries = 0]

\* One attempt of caller c's RoundTrip: the underlying transport answers with a
\* status of S or an error, and the loop condition is evaluated on the answer.
RTAnswer(c, o, k) ==
    /\ rt[c].pc \in {"first", "retry"}
    /\ rt' = [rt EXCEPT ![c] = AfterCheck(AfterAttempt(rt[c], o, k))]
    /\ uploads' = IF rt[c].req.method = "POST" THEN uploads + 1 ELSE uploads

RTAttempt(c, S) ==
    \E o \in TransportOutcomes(S), k \in Readable(rt[c]) : RTAnswer(c, o, k)

\* ------------------------------------------------------------------ SpecRT

\* The bodies a request may carry: n chunks, each unlike the others.
Bodies == {[i \in 1..n |-> i] : n \in 0..MaxBody}
Requests ==
    {[method |-> "GET", url |-> [path |-> bucketsApiPath, id |-> 0], header |-> {},
      body |-> NoBody]}
    \cup {[method |-> "POST", url |-> [path |-> "/api/v2/write", id |-> 0],
            header |-> {"Content-Encoding: gzip"}, body |-> NewReader(d)] : d \in Bodies}

RunIdle ==
    /\ bucketsList = <<>>
    /\ wg = 0
    /\ payload = EmptyBuffer
    /\ apiErrors = 0
    /\ logOutput = "stdout"
    /\ tpc = [t \in Tasks |-> "idle"]
    /\ events = [t \in Tasks |-> <<>>]
    /\ idx = [t \in Tasks |-> 1]
    /\ off = [t \in Tasks |-> 0]
    /\ srcFailed = [t \in Tasks |-> FALSE]
    /\ mainResp = [err |-> FALSE, status |-> NoResp]
    /\ outcome = "running"
    /\ uploads = 0
    /\ discovery = "pending"
    /\ loads = 0
    /\ fetched = [t \in Tasks |-> <<>>]

InitRT ==
    /\ RunIdle
    /\ mpc = "rt"
    /\ loop = LoopIdle
    /\ esc = EscIdle
    /\ \E req \in Requests :
           /\ rt = [c \in Callers |-> IF c = Main THEN BeginRoundTrip(req) ELSE RTIdle]
           /\ hist = [req |-> req, calls |-> <<>>]

\* An attempt of the call, logged.
RTAttemptLogged ==
    /\ \E o \in TransportOutcomes(Statuses), k \in Readable(rt[Main]) :
           /\ RTAnswer(Main, o, k)
           /\ hist' = [hist EXCEPT !.calls =
                          Append(@, [req |-> rt[Main].req, read |-> k, out |-> o])]
    /\ UNCHANGED <<runVars>>

NextRT == RTAttemptLogged

SpecRT == InitRT /\ [][NextRT]_vars

\* --------------------------------------------------------------- the run

EventKinds == {"valid", "invalid"}
EventLists == UNION {[1..n -> EventKinds] : n \in 0..MaxEvents}
\* The bucket lists the server may answer with. A Go map has no order and the
\* range loop takes its entries in any order; the buckets are numbered with
\* those of a known type first.
BucketLists ==
    {l \in UNION {[1..n -> [type : RunTypes]] : n \in 0..MaxSources} :
        \A i, j \in DOMAIN l : i < j /\ l[j].type \in KnownTypes => l[i].type \in KnownTypes}

\* What the server's answer may turn out to be: a response has a body to read
\* only if the transport returned no error, and the body, of whatever status,
\* is or is not the JSON of a list only if it could be read.
ReadErrs(err) == IF err THEN {FALSE} ELSE BOOLEAN
DecodeErrs(err, readErr) == IF err \/ readErr THEN {FALSE} ELSE BOOLEAN
Decoded(err, readErr, decodeErr, lists) ==
    IF err \/ readErr \/ decodeErr THEN {<<>>} ELSE lists

\* Line 194, lines 223-224, lines 373-378: the requests of a run.
BucketsRequest ==
    [method |-> "GET", url |-> [path |-> bucketsApiPath, id |-> 0], header |-> {},
     body |-> NoBody]

EventsRequest(id) ==
    [method |-> "GET", url |-> [path |-> "/api/0/buckets/%s/events?start=%s", id |-> id],
     header |-> {}, body |-> NoBody]

\* Lines 366-369: gzip.NewWriter(&buf); w.Write(payload.Bytes()); w.Close():
\* one gzip member holding the lines.
GzipFrame(p) == <<[gzip |-> p]>>

WriteRequest(p) ==
    [method |-> "POST", url |-> [path |-> "/api/v2/write?precision=s", id |-> 0],
     header |-> {"Accept: application/json", "Authorization: Token",
                 "Content-Encoding: gzip", "Content-Type: text/plain; charset=utf-8"},
     body |-> NewReader(GzipFrame(p))]

\* RendersLine with a line for the events of every type.
RendersLineAnyType(entry, ev) == ev = "valid"

\* Lines 247-352: whether the loop body reaches payload.WriteString for an event
\* (the switch has a case for the type and the event's data decodes), and the
\* line it writes.
RendersLine(entry, ev) == entry.type \in KnownTypes /\ ev = "valid"
Line(t, i) == [src |-> t, ev |-> i, torn |-> FALSE]

\* EventsFetchFails without the status check of lines 236-239.
EventsFetchFailsNoStatus(err, readErr, status, decodeErr) ==
    \/ err
    \/ readErr
    \/ decodeErr

\* Lines 226-245: whether the goroutine calls handleApiError and returns.
EventsFetchFails(err, readErr, status, decodeErr) ==
    \/ err
    \/ readErr
    \/ status # StatusOK
    \/ decodeErr

\* BucketsFetchFails without the status check of lines 204-207.
BucketsFetchFailsNoStatus(err, readErr, status, decodeErr) ==
    \/ err
    \/ readErr
    \/ decodeErr

\* Lines 196-212: whether main ends the run in log.Fatal.
BucketsFetchFails(err, readErr, status, decodeErr) ==
    \/ err
    \/ readErr
    \/ status # StatusOK
    \/ decodeErr

\* UploadFailure taking every 2xx status for success.
UploadFailureAny2xx(err, readErr, status) ==
    IF err THEN "Error sending data"
    ELSE IF readErr THEN "Error reading data"
    ELSE IF status < 200 \/ status > 299 THEN "Error sending data"
    ELSE ""

\* UploadFailure without the status check of lines 388-390.
UploadFailureNoStatus(err, readErr, status) ==
    IF err THEN "Error sending data"
    ELSE IF readErr THEN "Error reading data"
    ELSE ""

\* Lines 380-390: the log.Fatal main ends in after the POST, or "" for none.
UploadFailure(err, readErr, status) ==
    IF err THEN "Error sending data"
    ELSE IF readErr THEN "Error reading data"
    ELSE IF status # StatusNoContent THEN "Error sending data"
    ELSE ""

\* AtomicAdd as a flag: apiErrors.Store(1).
AtomicAddStores(v) == 1

\* Line 134: apiErrors.Add(1).
AtomicAdd(v) == v + 1

\* WaitReturns without the wait.
WaitReturnsAtOnce(counter) == TRUE

\* Line 361: whether wg.Wait() returns.
WaitReturns(counter) == counter = 0

\* payload.Bytes(): the lines in the buffer.
Bytes(p) == SubSeq(p.buf, 1, p.len)

\* PayloadIsEmpty without the check.
PayloadIsEmptyNever(p) == FALSE

\* Line 363.
PayloadIsEmpty(p) == Len(Bytes(p)) = 0

\* Line 354, payload.WriteString(line), is three accesses to the buffer, and no
\* lock orders the goroutines' calls. First len(b.buf) is read: the slot to
\* write to.
\* Then b.buf = b.buf[:m+n]: the length is set to end after slot m + 1.
Resliced(p, m) ==
    [buf |-> IF Len(p.buf) < m + 1 THEN Append(p.buf, Hole) ELSE p.buf,
     len |-> m + 1]

\* Then copy(b.buf[m:], line): the buffers it may leave. b.buf[m:] is empty when
\* another goroutine has set the length back to m, and nothing is copied. The
\* slot holds the line; or, when another line was copied there, possibly a mix
\* of the two; or, when another goroutine is moving the buffer to a larger
\* array, possibly nothing of the line.
Copied(p, m, line, moving) ==
    IF p.len = m THEN {p}
    ELSE {[p EXCEPT !.buf[m + 1] = line]}
         \cup (IF p.buf[m + 1] # Hole /\ p.buf[m + 1] # line
               THEN {[p EXCEPT !.buf[m + 1] = [line EXCEPT !.torn = TRUE]]} ELSE {})
         \cup (IF moving THEN {p} ELSE {})

\* copy(b.buf[m:], line) panics when another goroutine has set the length below m.
CopyPanics(p, m) == p.len < m

Init ==
    /\ mpc = "start"
    /\ bucketsList = <<>>
    /\ wg = 0
    /\ payload = EmptyBuffer
    /\ apiErrors = 0
    /\ logOutput = "stdout"
    /\ rt = [c \in Callers |-> RTIdle]
    /\ tpc = [t \in Tasks |-> "idle"]
    /\ events = [t \in Tasks |-> <<>>]
    /\ idx = [t \in Tasks |-> 1]
    /\ off = [t \in Tasks |-> 0]
    /\ srcFailed = [t \in Tasks |-> FALSE]
    /\ mainResp = [err |-> FALSE, status |-> NoResp]
    /\ outcome = "running"
    /\ uploads = 0
    /\ discovery = "pending"
    /\ loads = 0
    /\ fetched = [t \in Tasks |-> <<>>]
    /\ loop = LoopIdle
    /\ esc = EscIdle
    /\ hist = [req |-> NoRequest, calls |-> <<>>]

\* log.Fatal: the process exits with status 1.
Fatal(msg) ==
    /\ mpc' = "exit"
    /\ outcome' = msg

\* Lines 193-195: main sends the bucket list request.
MainDiscover ==
    /\ mpc = "start"
    /\ mpc' = "buckets"
    /\ rt' = [rt EXCEPT ![Main] = BeginRoundTrip(BucketsRequest)]
    /\ UNCHANGED <<bucketsList, wg, payload, apiErrors, logOutput, tpc, events,
                   idx, off, srcFailed, mainResp, outcome, uploads, hist,
                   discovery, loads, fetched, loop, esc>>

\* Lines 195-215: client.Do has returned; the body is read and decoded.
MainBuckets ==
    /\ mpc = "buckets"
    /\ rt[Main].pc = "ret"
    /\ mainResp' = [err |-> rt[Main].err, status |-> rt[Main].resp]
    /\ rt' = [rt EXCEPT ![Main] = RTIdle]
    /\ \E readErr \in ReadErrs(rt[Main].err) :
       \E decodeErr \in DecodeErrs(rt[Main].err, readErr) :
       \E decoded \in Decoded(rt[Main].err, readErr, decodeErr, BucketLists) :
           /\ discovery' = IF rt[Main].err \/ readErr \/ rt[Main].resp # 200 \/ decodeErr
                           THEN "failed" ELSE "ok"
           /\ IF BucketsFetchFails(rt[Main].err, readErr, rt[Main].resp, decodeErr)
              THEN /\ Fatal("Error trying to get bucket list")
                   /\ UNCHANGED bucketsList
              ELSE /\ bucketsList' = decoded
                   /\ mpc' = IF Len(decoded) = 0 THEN "wait" ELSE "spawn"
                   /\ UNCHANGED outcome
    /\ UNCHANGED <<wg, payload, apiErrors, logOutput, tpc, events, idx, off,
                   srcFailed, uploads, hist, loads, fetched, loop, esc>>

\* The entries the range loop has yet to take.
NotStarted == {t \in DOMAIN bucketsList : tpc[t] = "idle"}

\* Lines 216-219: one turn of the range loop: wg.Add(1); go func(...).
MainSpawn ==
    /\ mpc = "spawn"
    /\ \E t \in NotStarted :
           /\ tpc' = [tpc EXCEPT ![t] = "go"]
           /\ mpc' = IF NotStarted = {t} THEN "wait" ELSE "spawn"
    /\ wg' = wg + 1
    /\ UNCHANGED <<bucketsList, payload, apiErrors, logOutput, rt, events, idx, off,
                   srcFailed, mainResp, outcome, uploads, hist,
                   discovery, loads, fetched, loop, esc>>

\* Line 361: wg.Wait() returns.
MainWait ==
    /\ mpc = "wait"
    /\ WaitReturns(wg)
    /\ mpc' = "check"
    /\ UNCHANGED <<bucketsList, wg, payload, apiErrors, logOutput, rt, tpc,
                   events, idx, off, srcFailed, mainResp, outcome, uploads, hist,
                   discovery, loads, fetched, loop, esc>>

\* Lines 363-379: the emptiness check, the compression, the POST is sent.
MainShip ==
    /\ mpc = "check"
    /\ IF PayloadIsEmpty(payload)
       THEN /\ Fatal("No data to send")
            /\ UNCHANGED rt
       ELSE /\ mpc' = "post"
            /\ rt' = [rt EXCEPT ![Main] = BeginRoundTrip(WriteRequest(Bytes(payload)))]
            /\ UNCHANGED outcome
    /\ UNCHANGED <<bucketsList, wg, payload, apiErrors, logOutput, tpc, events,
                   idx, off, srcFailed, mainResp, uploads, hist,
                   discovery, loads, fetched, loop, esc>>

\* Lines 379-390: client.Do has returned; the response is read and judged.
MainPost ==
    /\ mpc = "post"
    /\ rt[Main].pc = "ret"
    /\ mainResp' = [err |-> rt[Main].err, status |-> rt[Main].resp]
    /\ rt' = [rt EXCEPT ![Main] = RTIdle]
    /\ \E readErr \in ReadErrs(rt[Main].err) :
           LET msg == UploadFailure(rt[Main].err, readErr, rt[Main].resp)
           IN  IF msg # ""
               THEN Fatal(msg)
               ELSE /\ mpc' = "errors"
                    /\ UNCHANGED outcome
    /\ UNCHANGED <<bucketsList, wg, payload, apiErrors, logOutput, tpc, events,
                   idx, off, srcFailed, uploads, hist,
                   discovery, loads, fetched, loop, esc>>

\* FinalOutcome testing for more than one failure.
FinalOutcomeForgivesOne(n) == IF n > 1 THEN "Errors: %d" ELSE "ok"

\* Lines 392-395: log.Fatalf("Errors: %d\n", ...) or the return of main, by the
\* value apiErrors.Load() returned.
FinalOutcome(n) == IF n > 0 THEN "Errors: %d" ELSE "ok"

\* Lines 392-395: the failure counter is read; log.Fatalf or the return of main.
MainFinish ==
    /\ mpc = "errors"
    /\ mpc' = "exit"
    /\ outcome' = FinalOutcome(apiErrors)
    /\ loads' = loads + (IF apiErrors > 0 THEN 2 ELSE 1)
    /\ UNCHANGED <<bucketsList, wg, payload, apiErrors, logOutput, rt, tpc,
                   events, idx, off, srcFailed, mainResp, uploads, hist,
                   discovery, fetched, loop, esc>>

\* Lines 222-225: the goroutine sends its events request.
TaskFetch(t) ==
    /\ tpc[t] = "go"
    /\ tpc' = [tpc EXCEPT ![t] = "events"]
    /\ rt' = [rt EXCEPT ![t] = BeginRoundTrip(EventsRequest(t))]
    /\ UNCHANGED <<mpc, bucketsList, wg, payload, apiErrors, logOutput, events,
                   idx, off, srcFailed, mainResp, outcome, uploads, hist,
                   discovery, loads, fetched, loop, esc>>

\* Lines 225-245: client.Do has returned; the body is read and decoded. On a
\* failure handleApiError begins: line 134. srcFailed records what the answer
\* was (a transport error, an unreadable body, a status other than 200, a body
\* that is no list), whatever the code makes of it.
TaskEvents(t) ==
    /\ tpc[t] = "events"
    /\ rt[t].pc = "ret"
    /\ rt' = [rt EXCEPT ![t] = RTIdle]
    /\ \E readErr \in ReadErrs(rt[t].err) :
       \E decodeErr \in DecodeErrs(rt[t].err, readErr) :
       \E decoded \in Decoded(rt[t].err, readErr, decodeErr, EventLists) :
           /\ srcFailed' = [srcFailed EXCEPT ![t] =
                  rt[t].err \/ readErr \/ rt[t].resp # 200 \/ decodeErr]
           /\ IF EventsFetchFails(rt[t].err, readErr, rt[t].resp, decodeErr)
              THEN /\ apiErrors' = AtomicAdd(apiErrors)
                   /\ tpc' = [tpc EXCEPT ![t] = "stderr"]
                   /\ UNCHANGED events
              ELSE /\ events' = [events EXCEPT ![t] = decoded]
                   /\ tpc' = [tpc EXCEPT ![t] = "loop"]
                   /\ UNCHANGED apiErrors
    /\ UNCHANGED <<mpc, bucketsList, wg, payload, logOutput, idx, off, mainResp,
                   outcome, uploads, hist,
                   discovery, loads, fetched, loop, esc>>

\* Line 135: log.SetOutput(os.Stderr).
TaskLogStderr(t) ==
    /\ tpc[t] = "stderr"
    /\ logOutput' = "stderr"
    /\ tpc' = [tpc EXCEPT ![t] = "println"]
    /\ UNCHANGED <<mpc, bucketsList, wg, payload, apiErrors, rt, events, idx, off,
                   srcFailed, mainResp, outcome, uploads, hist,
                   discovery, loads, fetched, loop, esc>>

\* Line 136: log.Println(message, err).
TaskLogPrintln(t) ==
    /\ tpc[t] = "println"
    /\ tpc' = [tpc EXCEPT ![t] = "stdout"]
    /\ UNCHANGED <<mpc, bucketsList, wg, payload, apiErrors, logOutput, rt, events,
                   idx, off, srcFailed, mainResp, outcome, uploads, hist,
                   discovery, loads, fetched, loop, esc>>

\* Line 137: log.SetOutput(os.Stdout); handleApiError returns, and so does the
\* goroutine: the deferred wg.Done() runs (line 220).
TaskLogStdout(t) ==
    /\ tpc[t] = "stdout"
    /\ logOutput' = "stdout"
    /\ tpc' = [tpc EXCEPT ![t] = "done"]
    /\ wg' = wg - 1
    /\ UNCHANGED <<mpc, bucketsList, payload, apiErrors, rt, events, idx, off,
                   srcFailed, mainResp, outcome, uploads, hist,
                   discovery, loads, fetched, loop, esc>>

\* Lines 247-352: one turn of the loop over the events that writes nothing.
TaskSkip(t) ==
    /\ tpc[t] = "loop"
    /\ events[t] # <<>>
    /\ ~RendersLine(bucketsList[t], Head(events[t]))
    /\ events' = [events EXCEPT ![t] = Tail(@)]
    /\ idx' = [idx EXCEPT ![t] = @ + 1]
    /\ UNCHANGED <<mpc, bucketsList, wg, payload, apiErrors, logOutput, rt, tpc,
                   off, srcFailed, mainResp, outcome, uploads, hist,
                   discovery, loads, fetched, loop, esc>>

\* Lines 247-354: one turn of the loop renders its line and enters
\* payload.WriteString, which reads the length of the buffer.
TaskWriteBegin(t) ==
    /\ tpc[t] = "loop"
    /\ events[t] # <<>>
    /\ RendersLine(bucketsList[t], Head(events[t]))
    /\ off' = [off EXCEPT ![t] = payload.len]
    /\ tpc' = [tpc EXCEPT ![t] = "reslice"]
    /\ UNCHANGED <<mpc, bucketsList, wg, payload, apiErrors, logOutput, rt, events,
                   idx, srcFailed, mainResp, outcome, uploads, hist,
                   discovery, loads, fetched, loop, esc>>

\* Line 354: payload.WriteString sets the length of the buffer.
TaskWriteReslice(t) ==
    /\ tpc[t] = "reslice"
    /\ payload' = Resliced(payload, off[t])
    /\ tpc' = [tpc EXCEPT ![t] = "copy"]
    /\ UNCHANGED <<mpc, bucketsList, wg, apiErrors, logOutput, rt, events, idx, off,
                   srcFailed, mainResp, outcome, uploads, hist,
                   discovery, loads, fetched, loop, esc>>

\* Line 354: payload.WriteString copies the line and returns, or panics: the
\* process exits with status 2.
TaskWriteCopy(t) ==
    /\ tpc[t] = "copy"
    /\ IF CopyPanics(payload, off[t])
       THEN /\ mpc' = "exit"
            /\ outcome' = "panic: slice bounds out of range"
            /\ UNCHANGED <<payload, events, idx, off, tpc>>
       ELSE /\ payload' \in Copied(payload, off[t], Line(t, idx[t]),
                                   \E u \in Tasks \ {t} : tpc[u] = "reslice")
            /\ events' = [events EXCEPT ![t] = Tail(@)]
            /\ idx' = [idx EXCEPT ![t] = @ + 1]
            /\ off' = [off EXCEPT ![t] = 0]
            /\ tpc' = [tpc EXCEPT ![t] = "loop"]
            /\ UNCHANGED <<mpc, outcome>>
    /\ UNCHANGED <<bucketsList, wg, apiErrors, logOutput, rt, srcFailed, mainResp,
                   uploads, hist, discovery, loads, fetched, loop, esc>>

\* Lines 355-357 and 220: the loop is over and the goroutine returns; the
\* deferred wg.Done() runs.
TaskDone(t) ==
    /\ tpc[t] = "loop"
    /\ events[t] = <<>>
    /\ wg' = wg - 1
    /\ tpc' = [tpc EXCEPT ![t] = "done"]
    /\ idx' = [idx EXCEPT ![t] = 1]
    /\ UNCHANGED <<mpc, bucketsList, payload, apiErrors, logOutput, rt, events, off,
                   srcFailed, mainResp, outcome, uploads, hist,
                   discovery, loads, fetched, loop, esc>>

\* An attempt of a RoundTrip call of main or of a goroutine.
Transport ==
    \E c \in Callers :
        /\ mpc # "exit"
        /\ RTAttempt(c, RunStatuses)
        /\ UNCHANGED <<runVars, hist>>

Task ==
    \E t \in Tasks :
        /\ mpc # "exit"
        /\ \/ TaskFetch(t)
           \/ TaskEvents(t)
           \/ TaskLogStderr(t)
           \/ TaskLogPrintln(t)
           \/ TaskLogStdout(t)
           \/ TaskSkip(t)
           \/ TaskWriteBegin(t)
           \/ TaskWriteReslice(t)
           \/ TaskWriteCopy(t)
           \/ TaskDone(t)

Next ==
    \/ MainDiscover
    \/ MainBuckets
    \/ MainSpawn
    \/ MainWait
    \/ MainShip
    \/ MainPost
    \/ MainFinish
    \/ Transport
    \/ Task

Spec == Init /\ [][Next]_vars

\* ---------------------------------------------------------- escapeTagValue

\* The three characters escapeTagValue escapes.
Delimiters == {",", "=", " "}

\* strings.ReplaceAll(s, old, new) for a one-character old: every occurrence
\* of old is replaced by new. The halves of s are handled one after the other,
\* which keeps the recursion shallow on long strings.
RECURSIVE ReplaceAll(_, _, _)
ReplaceAll(s, old, new) ==
    IF Len(s) = 0 THEN s
    ELSE IF Len(s) = 1 THEN (IF s[1] = old THEN new ELSE s)
    ELSE LET mid == Len(s) \div 2
         IN  ReplaceAll(SubSeq(s, 1, mid), old, new)
                 \o ReplaceAll(SubSeq(s, mid + 1, Len(s)), old, new)

\* escapeTagValue escaping the backslashes of the value as well.
escapeTagValueBackslashesToo(value) ==
    LET withoutBackslashes == ReplaceAll(value, "\\", <<"\\", "\\">>)
        withoutCommas == ReplaceAll(withoutBackslashes, ",", <<"\\", ",">>)
        withoutEquals == ReplaceAll(withoutCommas, "=", <<"\\", "=">>)
        escaped == ReplaceAll(withoutEquals, " ", <<"\\", " ">>)
        runes == escaped
    IN  IF Len(runes) <= stringLimit
        THEN escaped
        ELSE SubSeq(runes, 1, stringLimit - 3) \o <<".", ".", ".">>

\* Lines 140-149.
escapeTagValue(value) ==
    LET withoutCommas == ReplaceAll(value, ",", <<"\\", ",">>)
        withoutEquals == ReplaceAll(withoutCommas, "=", <<"\\", "=">>)
        escaped == ReplaceAll(withoutEquals, " ", <<"\\", " ">>)
        runes == escaped
    IN  IF Len(runes) <= stringLimit
        THEN escaped
        ELSE SubSeq(runes, 1, stringLimit - 3) \o <<".", ".", ".">>

\* -------------------------------------------------------------- SpecEscape

\* The code points of the values: a letter, the three delimiters, a backslash.
TagChars == {"a", ",", "=", " ", "\\"}
StringsUpTo(n) == UNION {[1..k -> TagChars] : k \in 0..n}
Repeat(c, n) == [i \in 1..n |-> c]

\* The values escapeTagValue is called with: every short value, and long
\* values, each a run of letters up to about stringLimit followed by a short
\* value.
ShortValues == StringsUpTo(MaxTagLen)
LongValues ==
    {Repeat("a", stringLimit - k) \o v : k \in 0..2, v \in StringsUpTo(MaxTagLen - 1)}

InitEscape ==
    /\ RunIdle
    /\ mpc = "escape"
    /\ rt = [c \in Callers |-> RTIdle]
    /\ hist = [req |-> NoRequest, calls |-> <<>>]
    /\ loop = LoopIdle
    /\ \E value \in ShortValues \cup LongValues :
           esc = [pc |-> "call", value |-> value, result |-> <<>>]

\* The call returns.
EscapeReturn ==
    /\ esc.pc = "call"
    /\ esc' = [esc EXCEPT !.pc = "ret", !.result = escapeTagValue(esc.value)]
    /\ UNCHANGED <<mpc, bucketsList, wg, payload, apiErrors, logOutput, rt, tpc, events,
                   idx, off, srcFailed, mainResp, outcome, uploads, hist, discovery,
                   loads, fetched, loop>>

NextEscape == EscapeReturn

SpecEscape == InitEscape /\ [][NextEscape]_vars

\* ---------------------------------------------------------------- SpecLoop

\* The bucket of the goroutine: its type, and a client and a hostname without
\* and with a delimiter.
LoopTypes == KnownTypes \cup {"unknown.type"}
LoopClients == {<<"a", "w">>, <<"a", " ", "w">>}
LoopHostnames == {<<"p", "c">>, <<"p", ",", "c">>}
Entries == [type : LoopTypes, client : LoopClients, hostname : LoopHostnames]

\* The data of an event, a json.RawMessage, by what the code can make of it:
\* the types whose struct json.Unmarshal decodes it into, and the fields it
\* then finds. Of the URL, whether url.Parse returns an error, and the host it
\* returns.
DataNoObject ==
    [shapes |-> {}, url |-> [err |-> TRUE, host |-> <<>>],
     audible |-> FALSE, incognito |-> FALSE, file |-> <<>>, project |-> <<>>,
     language |-> <<>>, app |-> <<>>, status |-> <<>>, label |-> <<>>,
     running |-> FALSE]
DataBadURL ==
    [shapes |-> KnownTypes, url |-> [err |-> TRUE, host |-> <<>>],
     audible |-> FALSE, incognito |-> TRUE, file |-> <<"f">>, project |-> <<"p">>,
     language |-> <<"g", "o">>, app |-> <<"s", "h">>, status |-> <<"a", "f", "k">>,
     label |-> <<"l">>, running |-> FALSE]
DataBare ==
    [shapes |-> KnownTypes, url |-> [err |-> FALSE, host |-> <<>>],
     audible |-> FALSE, incognito |-> FALSE, file |-> <<>>, project |-> <<>>,
     language |-> <<>>, app |-> <<>>, status |-> <<>>, label |-> <<>>,
     running |-> FALSE]
DataFull ==
    [shapes |-> KnownTypes, url |-> [err |-> FALSE, host |-> <<"e", ",", "c">>],
     audible |-> TRUE, incognito |-> FALSE, file |-> <<"m", " ", "n">>,
     project |-> <<"p", "=", "q">>, language |-> <<"g", "o">>,
     app |-> <<"a", " ", "b">>, status |-> <<"n", "o", "t", "-", "a", "f", "k">>,
     label |-> <<"l", ",", "1">>, running |-> TRUE]
DataSamples == {DataNoObject, DataBadURL, DataBare, DataFull}

\* The events of the bucket: the duration in tenths of a millisecond.
LoopEvents ==
    {[timestamp |-> [sec |-> 1700000000, nsec |-> 500000000], duration |-> 12346,
      data |-> d] : d \in DataSamples}
LoopEventLists == UNION {[1..n -> LoopEvents] : n \in 0..MaxLoopEvents}

\* %.3f of the duration: thousandths of a second, rounded. Timestamp.Unix():
\* the seconds.
FormatMillis(duration) == (duration + 5) \div 10
Unix(timestamp) == timestamp.sec

\* Whether json.Unmarshal(event.Data, data) returns nil for the struct of the
\* bucket's type.
Unmarshals(entry, event) == entry.type \in event.data.shapes

\* Lines 249-352: whether the turn of the loop ends in a continue: the data
\* does not decode, the URL of a web.tab.current event does not parse, or the
\* switch has no case for the type.
Continues(entry, event) ==
    CASE entry.type = webTabCurrentType ->
             ~Unmarshals(entry, event) \/ event.data.url.err
      [] entry.type \in KnownTypes \ {webTabCurrentType} ->
             ~Unmarshals(entry, event)
      [] OTHER -> TRUE

Tag(key, value) == [key |-> key, value |-> value]
Field(key, value) == [key |-> key, value |-> value]

\* Lines 262-348: influxLine as fmt.Sprintf renders it, by its parts: the
\* measurement, the tags and the fields in the order of the format string, and
\* the timestamp.
InfluxLine(entry, event) ==
    LET data == event.data
        client == Tag("client", entry.client)
        hostname == Tag("hostname", escapeTagValue(entry.hostname))
        duration == Field("duration", FormatMillis(event.duration))
        cleanUrl == IF data.url.host = <<>> THEN <<>>
                    ELSE <<Tag("url", data.url.host)>>
        label == IF data.label = <<>> THEN <<>>
                 ELSE <<Tag("label", escapeTagValue(data.label))>>
        tags ==
            CASE entry.type = webTabCurrentType -> <<client, hostname>> \o cleanUrl
              [] entry.type = appEditorType ->
                     <<client, hostname,
                       Tag("project", escapeTagValue(data.project)),
                       Tag("language", escapeTagValue(data.language)),
                       Tag("file", escapeTagValue(data.file))>>
              [] entry.type = currentWindowType ->
                     <<client, hostname, Tag("app", escapeTagValue(data.app))>>
              [] entry.type = stopwatchType -> <<client, hostname>> \o label
              [] entry.type = afkType -> <<client, hostname>>
        fields ==
            CASE entry.type = webTabCurrentType ->
                     <<duration, Field("audible", data.audible),
                       Field("incognito", data.incognito)>>
              [] entry.type = appEditorType -> <<duration>>
              [] entry.type = currentWindowType -> <<duration>>
              [] entry.type = stopwatchType ->
                     <<duration, Field("running", data.running)>>
              [] entry.type = afkType -> <<duration, Field("status", data.status)>>
    IN  [measurement |-> entry.type, tags |-> tags, fields |-> fields,
         timestamp |-> Unix(event.timestamp)]

\* Continue ending the loop.
ContinueBreaks(rest) == <<>>

\* The continue statements of lines 255-351: the events the loop goes on with.
Continue(rest) == Tail(rest)

InitLoop ==
    /\ RunIdle
    /\ mpc = "loop"
    /\ rt = [c \in Callers |-> RTIdle]
    /\ hist = [req |-> NoRequest, calls |-> <<>>]
    /\ esc = EscIdle
    /\ \E entry \in Entries, list \in LoopEventLists :
           loop = [pc |-> "loop", entry |-> entry, fetched |-> list,
                   events |-> list, lines |-> <<>>]

\* The number of the event the loop is at.
LoopAt == Len(loop.fetched) - Len(loop.events) + 1

\* Lines 247-352: a turn of the loop that ends in a continue.
LoopContinue ==
    /\ loop.pc = "loop"
    /\ loop.events # <<>>
    /\ Continues(loop.entry, Head(loop.events))
    /\ loop' = [loop EXCEPT !.events = Continue(@)]
    /\ UNCHANGED <<mpc, bucketsList, wg, payload, apiErrors, logOutput, rt, tpc, events,
                   idx, off, srcFailed, mainResp, outcome, uploads, hist, discovery,
                   loads, fetched, esc>>

\* Lines 247-354: a turn of the loop that renders its line and writes it: the
\* goroutine is the only one, and payload.WriteString appends the line.
LoopWriteString ==
    /\ loop.pc = "loop"
    /\ loop.events # <<>>
    /\ ~Continues(loop.entry, Head(loop.events))
    /\ loop' = [loop EXCEPT
                   !.events = Tail(@),
                   !.lines = Append(@, [ev |-> LoopAt,
                                        line |-> InfluxLine(loop.entry, Head(loop.events))])]
    /\ UNCHANGED <<mpc, bucketsList, wg, payload, apiErrors, logOutput, rt, tpc, events,
                   idx, off, srcFailed, mainResp, outcome, uploads, hist, discovery,
                   loads, fetched, esc>>

\* Lines 355-357: the loop is over.
LoopReturn ==
    /\ loop.pc = "loop"
    /\ loop.events = <<>>
    /\ loop' = [loop EXCEPT !.pc = "done"]
    /\ UNCHANGED <<mpc, bucketsList, wg, payload, apiErrors, logOutput, rt, tpc, events,
                   idx, off, srcFailed, mainResp, outcome, uploads, hist, discovery,
                   loads, fetched, esc>>

NextLoop ==
    \/ LoopContinue
    \/ LoopWriteString
    \/ LoopReturn

SpecLoop == InitLoop /\ [][NextLoop]_vars

\* --------------------------------------------------------------- SpecWrite

\* The goroutines' loops over their events, from the moment every bucket's
\* events were fetched (each GET answered 200 at once) and main is at
\* wg.Wait(), up to the join.
InitWrite ==
    /\ mpc = "wait"
    /\ payload = EmptyBuffer
    /\ apiErrors = 0
    /\ logOutput = "stdout"
    /\ rt = [c \in Callers |-> RTIdle]
    /\ idx = [t \in Tasks |-> 1]
    /\ off = [t \in Tasks |-> 0]
    /\ srcFailed = [t \in Tasks |-> FALSE]
    /\ mainResp = [err |-> FALSE, status |-> StatusOK]
    /\ outcome = "running"
    /\ uploads = 0
    /\ hist = [req |-> NoRequest, calls |-> <<>>]
    /\ discovery = "ok"
    /\ loads = 0
    /\ loop = LoopIdle
    /\ esc = EscIdle
    /\ \E l \in BucketLists, decoded \in [Tasks -> EventLists] :
           /\ Len(l) > 0
           /\ bucketsList = l
           /\ wg = Len(l)
           /\ tpc = [t \in Tasks |-> IF t \in DOMAIN l THEN "loop" ELSE "idle"]
           /\ events = [t \in Tasks |-> IF t \in DOMAIN l THEN decoded[t] ELSE <<>>]
           /\ fetched = events

NextWrite ==
    \/ MainWait
    \/ Task

SpecWrite == InitWrite /\ [][NextWrite]_vars

\* ---------------------------------------------------------------- SpecFair

\* The event lists the goroutines' loops start with in SpecFair: every event
\* decodes.
FairEventLists == {[i \in 1..n |-> "valid"] : n \in 0..MaxFairEvents}

\* As InitWrite: every bucket's events were fetched (each GET answered 200 at
\* once) and main is at wg.Wait().
InitFair ==
    /\ mpc = "wait"
    /\ payload = EmptyBuffer
    /\ apiErrors = 0
    /\ logOutput = "stdout"
    /\ rt = [c \in Callers |-> RTIdle]
    /\ idx = [t \in Tasks |-> 1]
    /\ off = [t \in Tasks |-> 0]
    /\ srcFailed = [t \in Tasks |-> FALSE]
    /\ mainResp = [err |-> FALSE, status |-> StatusOK]
    /\ outcome = "running"
    /\ uploads = 0
    /\ hist = [req |-> NoRequest, calls |-> <<>>]
    /\ discovery = "ok"
    /\ loads = 0
    /\ loop = LoopIdle
    /\ esc = EscIdle
    /\ \E l \in BucketLists, decoded \in [Tasks -> FairEventLists] :
           /\ Len(l) > 0
           /\ bucketsList = l
           /\ wg = Len(l)
           /\ tpc = [t \in Tasks |-> IF t \in DOMAIN l THEN "loop" ELSE "idle"]
           /\ events = [t \in Tasks |-> IF t \in DOMAIN l THEN decoded[t] ELSE <<>>]
           /\ fetched = events

NextFair ==
    \/ MainWait
    \/ MainShip
    \/ MainPost
    \/ MainFinish
    \/ Transport
    \/ Task

\* The steps of main from wg.Wait() on.
MainStep == MainWait \/ MainShip \/ MainPost \/ MainFinish

\* A step of goroutine t: the disjunct of Task for t.
GoroutineStep(t) ==
    /\ mpc # "exit"
    /\ \/ TaskFetch(t)
       \/ TaskEvents(t)
       \/ TaskLogStderr(t)
       \/ TaskLogPrintln(t)
       \/ TaskLogStdout(t)
       \/ TaskSkip(t)
       \/ TaskWriteBegin(t)
       \/ TaskWriteReslice(t)
       \/ TaskWriteCopy(t)
       \/ TaskDone(t)

\* An attempt of caller c's RoundTrip call: the disjunct of Transport for c.
AttemptStep(c) ==
    /\ mpc # "exit"
    /\ RTAttempt(c, RunStatuses)
    /\ UNCHANGED <<runVars, hist>>

\* The Go scheduler runs every runnable goroutine, main included, and every
\* attempt of the underlying transport returns.
FairSchedule ==
    /\ WF_vars(MainStep)
    /\ \A t \in Tasks : WF_vars(GoroutineStep(t))
    /\ \A c \in Callers : WF_vars(AttemptStep(c))

SpecFair == InitFair /\ [][NextFair]_vars /\ FairSchedule

\* ------------------------------------------------------------------ claims

\* The outcomes a run can only end in after wg.Wait() has returned.
AfterJoinOutcomes ==
    {"No data to send", "Error sending data", "Error reading data", "Errors: %d", "ok"}

\* Main is past wg.Wait().
Joined ==
    \/ mpc \in {"check", "post", "errors"}
    \/ mpc = "exit" /\ outcome \in AfterJoinOutcomes

\* The goroutines inside payload.WriteString.
Writing == {t \in Tasks : tpc[t] \in {"reslice", "copy"}}

\* A goroutine whose events fetch returned 200 with a body that decoded.
FetchSucceeded(t) == tpc[t] \in {"loop", "reslice", "copy", "done"} /\ ~srcFailed[t]

\* An answer of the underlying transport that is to be retried: a transport
\* error, or status 500, 502, 503 or 504.
Retryable(o) == o.err \/ o.status \in {500, 502, 503, 504}

\* C1: at most one goroutine at a time is inside payload.WriteString on the
\* shared buffer.
C1_AppendsMutuallyExclusive == Cardinality(Writing) <= 1

\* C2: once main is past the join, the failure counter equals the number of
\* sources whose fetch failed (transport error, body read error, status other
\* than 200, undecodable body).
C2_CounterEqualsFailedSources ==
    Joined => apiErrors = Cardinality({t \in Tasks : srcFailed[t]})

C2_Witness ==
    /\ Joined
    /\ apiErrors = 1
    /\ \E t, u \in Tasks : srcFailed[t] /\ FetchSucceeded(u) /\ tpc[u] = "done"

\* C3: a goroutine whose fetch failed never enters the loop over the events, and
\* every line copied into the buffer is the line of a source whose fetch
\* succeeded.
C3_FailedSourcesAppendNothing ==
    /\ \A t \in Tasks : srcFailed[t] => tpc[t] \in {"stderr", "println", "stdout", "done"}
    /\ \A i \in 1..Len(payload.buf) :
           payload.buf[i] # Hole => FetchSucceeded(payload.buf[i].src)

C3_Witness ==
    /\ Joined
    /\ \E t \in Tasks : srcFailed[t]
    /\ \E i \in 1..payload.len : payload.buf[i] # Hole

\* C4: when main is past the join (the emptiness check, the compression, the
\* POST, the read of the counter), every goroutine that was started has
\* returned.
C4_ShippingAfterJoin ==
    Joined => \A t \in Tasks : tpc[t] = (IF t \in DOMAIN bucketsList THEN "done" ELSE "idle")

C4_Witness ==
    /\ mpc = "post"
    /\ Len(bucketsList) = 2
    /\ \A t \in DOMAIN bucketsList : tpc[t] = "done"

\* C5: the underlying transport is called at most 4 times for one request, and
\* every call after the first follows a retryable answer.
C5_AtMostFourAttempts ==
    /\ Len(hist.calls) <= 4
    /\ \A i \in 2..Len(hist.calls) : Retryable(hist.calls[i - 1].out)

C5_Witness ==
    /\ rt[Main].pc = "ret"
    /\ Len(hist.calls) = 4

\* C6: an answer that is not retryable is the last one, and RoundTrip has
\* returned it with no error: after k retryable answers, k retries were made.
C6_FirstFinalAnswerReturned ==
    \A i \in 1..Len(hist.calls) :
        ~Retryable(hist.calls[i].out) =>
            /\ i = Len(hist.calls)
            /\ rt[Main].pc = "ret"
            /\ rt[Main].resp = hist.calls[i].out.status
            /\ ~rt[Main].err

C6_Witness ==
    /\ rt[Main].pc = "ret"
    /\ Len(hist.calls) = 3
    /\ hist.calls[1].out.status = 503
    /\ hist.calls[2].out.status = 503
    /\ hist.calls[3].out.status = 200
    /\ rt[Main].resp = 200
    /\ ~rt[Main].err

\* C7: after four retryable answers RoundTrip has returned the fourth answer as
\* it is: its response and its error.
C7_ExhaustedReturnsLastAnswer ==
    (/\ Len(hist.calls) = 4
     /\ \A i \in 1..4 : Retryable(hist.calls[i].out))
    => /\ rt[Main].pc = "ret"
       /\ rt[Main].resp = hist.calls[4].out.status
       /\ rt[Main].err = hist.calls[4].out.err

C7_Witness ==
    /\ Len(hist.calls) = 4
    /\ \A i \in 1..3 : Retryable(hist.calls[i].out)
    /\ hist.calls[4].out = [err |-> FALSE, status |-> 503]
    /\ rt[Main].pc = "ret"
    /\ rt[Main].resp = 503
    /\ ~rt[Main].err

\* C8: every call of the underlying transport for a request with a body is
\* handed the method, URL and header of the request and an unread body holding
\* all of the request's body.
C8_BodyReplayedUnread ==
    hist.req.body # NoBody =>
        \A i \in 1..Len(hist.calls) :
            /\ hist.calls[i].req.method = hist.req.method
            /\ hist.calls[i].req.url = hist.req.url
            /\ hist.calls[i].req.header = hist.req.header
            /\ hist.calls[i].req.body.pos = 0
            /\ hist.calls[i].req.body.data = hist.req.body.data

C8_Witness ==
    /\ Len(hist.req.body.data) = 2
    /\ Len(hist.calls) = 3
    /\ hist.calls[1].read = 1
    /\ hist.calls[2].read = 2
    /\ hist.calls[3].req.body = NewReader(hist.req.body.data)

\* C9: when main is past the join and the buffer holds no line, no write POST
\* is handed to the transport and the run ends in "No data to send".
C9_EmptyPayloadIsFatal ==
    (Joined /\ Len(Bytes(payload)) = 0) =>
        /\ uploads = 0
        /\ mpc = "check" \/ (mpc = "exit" /\ outcome = "No data to send")

C9_Witness ==
    /\ mpc = "exit"
    /\ outcome = "No data to send"
    /\ apiErrors > 0

\* C10: the run gets past the upload only with a final status of 204; on a
\* transport error and on every other final status it ends in the log.Fatal of
\* the upload ("Error sending data", or "Error reading data" when the body of
\* the response could not be read).
C10_DeliveredOnlyOn204 ==
    /\ (mpc = "errors" \/ (mpc = "exit" /\ outcome \in {"Errors: %d", "ok"}))
           => (~mainResp.err /\ mainResp.status = 204)
    /\ (mpc = "exit" /\ uploads > 0 /\ (mainResp.err \/ mainResp.status # 204))
           => outcome \in {"Error sending data", "Error reading data"}

C10_Witness ==
    /\ mpc = "exit"
    /\ outcome = "Error sending data"
    /\ uploads > 0
    /\ ~mainResp.err
    /\ mainResp.status = 200

\* The write POST was answered 204 and main is past lines 380-390.
Delivered ==
    /\ mpc \in {"errors", "exit"}
    /\ uploads > 0
    /\ ~mainResp.err
    /\ mainResp.status = 204
    /\ outcome # "Error reading data"

\* C11: a run whose upload was answered 204 ends in success if and only if the
\* failure counter is zero; with one or more failed sources it ends in
\* "Errors: %d" although the batch was uploaded.
C11_SuccessIffNoFailedSource ==
    (mpc = "exit" /\ Delivered) =>
        /\ outcome = "ok" <=> apiErrors = 0
        /\ outcome = "Errors: %d" <=> apiErrors > 0

C11_Witness ==
    /\ mpc = "exit"
    /\ Delivered
    /\ apiErrors = 1
    /\ outcome = "Errors: %d"
    /\ Len(Bytes(payload)) = 1

\* C12: when the answer to the bucket list request is a failure (a transport
\* error, an unreadable body, a status other than 200, a body that is no bucket
\* map), the run has ended in the log.Fatal of the discovery: no goroutine was
\* started, no events request and no write POST was sent, and the failure
\* counter is zero.
C12_FailedDiscoveryIsFatal ==
    discovery = "failed" =>
        /\ mpc = "exit"
        /\ outcome = "Error trying to get bucket list"
        /\ bucketsList = <<>>
        /\ wg = 0
        /\ \A t \in Tasks : tpc[t] = "idle" /\ rt[t] = RTIdle
        /\ uploads = 0
        /\ apiErrors = 0

C12_Witness ==
    /\ discovery = "failed"
    /\ ~mainResp.err
    /\ mainResp.status = 204
    /\ outcome = "Error trying to get bucket list"

\* A bucket the server listed whose type the switch has no case for.
UnknownType(t) == t \in DOMAIN bucketsList /\ bucketsList[t].type \notin KnownTypes

\* A step of goroutine t: of its code or of its RoundTrip call.
TaskStep(t) == <<tpc[t], events[t], rt[t]>>' # <<tpc[t], events[t], rt[t]>>

\* The slots of the buffer holding a line of goroutine t.
LinesOf(p, t) == {i \in 1..Len(p.buf) : p.buf[i] # Hole /\ p.buf[i].src = t}

\* C13 as stated: no step of the goroutine of a bucket of unknown type changes
\* the failure counter or leaves a line of that bucket in the buffer.
C13_UnknownTypeLeavesCounter ==
    [][\A t \in Tasks :
           (UnknownType(t) /\ TaskStep(t)) =>
               /\ apiErrors' = apiErrors
               /\ LinesOf(payload', t) = {}]_vars

\* C13 amended: the goroutine of a bucket of unknown type leaves no line in the
\* buffer, and it changes the failure counter only when its own events fetch
\* failed, by one: the unknown type itself is a skip and never a failure.
C13_UnknownTypeIsSkipped ==
    [][\A t \in Tasks :
           (UnknownType(t) /\ TaskStep(t)) =>
               /\ LinesOf(payload', t) = {}
               /\ apiErrors' # apiErrors =>
                      /\ tpc[t] = "events"
                      /\ srcFailed'[t]
                      /\ apiErrors' = apiErrors + 1
               /\ (tpc[t] = "events" /\ tpc'[t] # "events" /\ ~srcFailed'[t]) =>
                      apiErrors' = apiErrors]_vars

C13_Witness ==
    \E t \in Tasks :
        /\ UnknownType(t)
        /\ ~srcFailed[t]
        /\ tpc[t] = "loop"
        /\ events[t] = <<>>
        /\ idx[t] = 2
        /\ apiErrors = 0
        /\ payload.len = 1

\* The value holds a comma, an equals sign or a space.
HasDelimiter(value) == \E i \in 1..Len(value) : value[i] \in Delimiters

\* Position i of s holds a backslash that escapes the delimiter after it.
Escapes(s, i) == s[i] = "\\" /\ i < Len(s) /\ s[i + 1] \in Delimiters

\* Un-escaping: a backslash followed by a comma, an equals sign or a space is
\* read as that character; every other code point is read as it is.
RECURSIVE UnescapeFrom(_, _, _)
UnescapeFrom(s, lo, hi) ==
    IF lo > hi THEN <<>>
    ELSE IF lo = hi THEN (IF Escapes(s, lo) THEN <<>> ELSE <<s[lo]>>)
    ELSE LET mid == (lo + hi) \div 2
         IN  UnescapeFrom(s, lo, mid) \o UnescapeFrom(s, mid + 1, hi)
Unescape(s) == UnescapeFrom(s, 1, Len(s))

\* The code points of the escaped value: one more for each delimiter.
EscapedLen(value) ==
    Len(value) + Cardinality({i \in 1..Len(value) : value[i] \in Delimiters})

\* C16 as stated: for every value holding a comma, an equals sign or a space,
\* un-escaping what escapeTagValue returned gives the value back.
C16_UnescapeRecoversValue ==
    (esc.pc = "ret" /\ HasDelimiter(esc.value)) => Unescape(esc.result) = esc.value

\* C16 amended: for every value holding a comma, an equals sign or a space
\* whose escaped form has at most stringLimit code points, un-escaping what
\* escapeTagValue returned gives the value back.
C16_UnescapeRecoversShortValue ==
    (esc.pc = "ret" /\ HasDelimiter(esc.value) /\ EscapedLen(esc.value) <= stringLimit)
        => Unescape(esc.result) = esc.value

C16_Witness ==
    /\ esc.pc = "ret"
    /\ esc.value = <<"\\", ",", " ">>
    /\ esc.result = <<"\\", "\\", ",", "\\", " ">>

\* The events the loop has taken, by number.
LoopTaken == 1..(Len(loop.fetched) - Len(loop.events))

\* An event that fails: its data does not decode into the struct of the
\* bucket's type, or it is a web.tab.current event whose URL does not parse.
EventFails(entry, event) ==
    \/ entry.type \notin event.data.shapes
    \/ entry.type = webTabCurrentType /\ event.data.url.err

\* C14: in the loop over the events of a bucket of a known type, the lines
\* written so far are the lines of the events taken so far that did not fail,
\* one line each and in the order of the fetched list; a failed event leaves
\* no line, and the failure counter is untouched.
C14_FailedEventDropsOnlyItself ==
    loop.entry.type \in KnownTypes =>
        /\ apiErrors = 0
        /\ {loop.lines[j].ev : j \in 1..Len(loop.lines)}
               = {i \in LoopTaken : ~EventFails(loop.entry, loop.fetched[i])}
        /\ \A j, k \in 1..Len(loop.lines) : j < k => loop.lines[j].ev < loop.lines[k].ev
        /\ \A j \in 1..Len(loop.lines) :
               loop.lines[j].line = InfluxLine(loop.entry, loop.fetched[loop.lines[j].ev])

C14_Witness ==
    /\ loop.pc = "done"
    /\ loop.entry.type = webTabCurrentType
    /\ Len(loop.fetched) = 3
    /\ loop.fetched[1].data = DataFull
    /\ loop.fetched[2].data = DataBadURL
    /\ loop.fetched[3].data = DataBare
    /\ Len(loop.lines) = 2
    /\ loop.lines[1].ev = 1
    /\ loop.lines[2].ev = 3

\* The raw value of a tag of the line of an event: the field of the bucket or
\* of the event's data the tag is rendered from.
RawTagValue(entry, event, key) ==
    CASE key = "client" -> entry.client
      [] key = "hostname" -> entry.hostname
      [] key = "url" -> event.data.url.host
      [] key = "project" -> event.data.project
      [] key = "language" -> event.data.language
      [] key = "file" -> event.data.file
      [] key = "app" -> event.data.app
      [] key = "label" -> event.data.label

\* Every comma, equals sign and space of the value has a backslash before it.
NoBareDelimiter(value) ==
    \A i \in 1..Len(value) :
        value[i] \in Delimiters => (i > 1 /\ value[i - 1] = "\\")

\* C15: every tag value of every line written is what escapeTagValue returns
\* for the raw value: it holds no comma, equals sign or space without a
\* backslash before it, and it has at most stringLimit code points.
C15_TagValuesEscaped ==
    \A j \in 1..Len(loop.lines) :
        LET written == loop.lines[j]
        IN  \A k \in 1..Len(written.line.tags) :
                LET tag == written.line.tags[k]
                IN  /\ tag.value = escapeTagValue(RawTagValue(loop.entry,
                                        loop.fetched[written.ev], tag.key))
                    /\ NoBareDelimiter(tag.value)
                    /\ Len(tag.value) <= stringLimit

\* The upload has failed: the write POST ended in a transport error or in a
\* final status other than 204, and main has judged it.
UploadFailed ==
    /\ mpc = "exit"
    /\ uploads > 0
    /\ mainResp.err \/ mainResp.status # 204

\* C17: when the upload has failed, the run has ended in the log.Fatal of the
\* upload and the failure counter was never read, whatever its value; the
\* counter is read only after the write POST was answered 204.
C17_CounterReadOnlyAfter204 ==
    /\ UploadFailed =>
           /\ loads = 0
           /\ outcome \notin {"Errors: %d", "ok"}
    /\ loads > 0 =>
           /\ uploads > 0
           /\ ~mainResp.err
           /\ mainResp.status = 204

C17_Witness ==
    /\ UploadFailed
    /\ uploads = 4
    /\ mainResp.status = 503
    /\ outcome = "Error sending data"
    /\ apiErrors = 1
    /\ loads = 0

\* The answer goroutine t's RoundTrip call holds.
Answer(f) == [err |-> f.err, status |-> f.resp]

\* C18: the events fetch of a goroutine is classified only when its RoundTrip
\* call has returned. A retryable answer (a transport error or status 500,
\* 502, 503, 504) is returned only as the fourth; an answer that is retried
\* leaves the goroutine where it is, and the failure counter with it; the
\* returned answer is classified once: a 200 with a readable, decodable body
\* leaves the counter and enters the loop over the events, everything else
\* adds one to the counter; and the counter changes in no other step.
C18_ClassifiedAfterRetries ==
    [][(\A t \in Tasks :
            tpc[t] = "events" =>
                /\ (rt'[t].pc = "ret") =>
                       (\/ rt[t].pc = "ret"
                        \/ ~Retryable(Answer(rt'[t]))
                        \/ rt[t].pc = "retry" /\ rt[t].retries = retryCount - 1)
                /\ (rt'[t].pc = "retry") =>
                       (/\ tpc'[t] = "events"
                        /\ rt'[t].retries <= retryCount - 1)
                /\ (tpc'[t] # "events") =>
                       (/\ rt[t].pc = "ret"
                        /\ IF ~rt[t].err /\ rt[t].resp = 200 /\ ~srcFailed'[t]
                           THEN apiErrors' = apiErrors /\ tpc'[t] = "loop"
                           ELSE apiErrors' = apiErrors + 1 /\ tpc'[t] = "stderr"))
       /\ (apiErrors' # apiErrors =>
               \E t \in Tasks : tpc[t] = "events" /\ tpc'[t] = "stderr")]_vars

C18_Witness ==
    \E t, u \in Tasks :
        /\ tpc[t] = "events"
        /\ rt[t].pc = "ret"
        /\ rt[t].resp = 503
        /\ tpc[u] = "events"
        /\ rt[u].pc = "retry"
        /\ rt[u].retries = retryCount - 1
        /\ apiErrors = 0

\* C20: whenever a goroutine is at the log.Println of handleApiError, the
\* output of the standard logger is standard error.
C20_FailureMessagesGoToStderr ==
    \A t \in Tasks : tpc[t] = "println" => logOutput = "stderr"

\* The lines the goroutines render: one for every event of a bucket of a known
\* type whose data decodes.
RenderedLines ==
    {Line(p[1], p[2]) :
        p \in {q \in Tasks \X (1..MaxEvents) :
                  /\ q[1] \in DOMAIN bucketsList
                  /\ q[2] \in DOMAIN fetched[q[1]]
                  /\ RendersLine(bucketsList[q[1]], fetched[q[1]][q[2]])}}

\* C19: once main is past the join, the buffer holds every rendered line once
\* and whole: every slot holds a rendered line (none is left unwritten, none is
\* a mix of two lines), every rendered line is in exactly one slot, and the
\* lines of one bucket are in the order of its events.
C19_PayloadHoldsEveryLineOnce ==
    Joined =>
        LET b == Bytes(payload)
        IN  /\ \A i \in 1..Len(b) : b[i] \in RenderedLines
            /\ \A line \in RenderedLines :
                   Cardinality({i \in 1..Len(b) : b[i] = line}) = 1
            /\ \A i, j \in 1..Len(b) :
                   (i < j /\ b[i].src = b[j].src) => b[i].ev < b[j].ev

\* The outcomes the run may end in: the fatal discovery failure, the empty
\* payload, the failed shipment, the count of failed sources, success.
ListedOutcomes ==
    {"Error trying to get bucket list"} \cup AfterJoinOutcomes

\* The run has ended in one of the listed outcomes, every goroutine that was
\* started has returned and the join is released.
Terminated ==
    /\ mpc = "exit"
    /\ outcome \in ListedOutcomes
    /\ \A t \in DOMAIN bucketsList : tpc[t] = "done"
    /\ wg = 0

\* C21: every fairly scheduled run whose HTTP attempts all return ends in one
\* of the listed outcomes, with every started goroutine finished and the join
\* released.
C21_RunEndsInListedOutcome == <>Terminated

====
